---------------------------- MODULE Spec2Model ----------------------------
(***************************************************************************)
(* Model of the MQTT 3.1.1 client engine MqttClient (mqttclient.h and its  *)
(* implementation file): packet codec, receive framer, connection flag,    *)
(* keep-alive timer and topic handler table; and of NetworkSelector, the   *)
(* application object that drives the network switching steps through it. *)
(*                                                                         *)
(* Bytes are the integers 0..255.  A QByteArray is a sequence of bytes, a  *)
(* QString a sequence of UTF-16 code units.  C++ offsets are 0-based, so   *)
(* data.at(i) is data[i + 1] here.                                         *)
(***************************************************************************)
EXTENDS Integers, Sequences, FiniteSets, TLC

VARIABLES
    m_connected,          \* bool m_connected
    m_packetId,           \* quint16 m_packetId
    m_keepAliveInterval,  \* quint16 m_keepAliveInterval (seconds)
    m_clientId,           \* QString m_clientId
    m_topicHandlers,      \* QMap<QString, TopicHandler>: function topic -> handler
    m_buffer,             \* QByteArray m_buffer
    timerActive,          \* m_keepAliveTimer->isActive()
    timerInterval,        \* m_keepAliveTimer->interval() in ms
    sock,                 \* m_socket->state()
    crashed,              \* the process was aborted by a failed bounds assertion
    op,                   \* the operation that ran last and its inputs
    pre,                  \* the engine state when that operation started
    emitted,              \* signals emitted by that operation, in order
    calls,                \* handler invocations made by that operation, in order
    frames,               \* frames removed from m_buffer by that operation, in order
    wire,                 \* bytes that operation handed to the transport
    oob,                  \* that operation read a QByteArray out of bounds
    stream,               \* framer runs: the whole byte stream to deliver
    fed,                  \* framer runs: number of bytes of stream delivered
    delivered,            \* framer runs: all frames processed so far
    arg,                  \* codec runs: the input of the function under check
    res,                  \* codec runs: its result
    m_networkSwichtStep,  \* NetworkSelector: int m_networkSwichtStep
    m_automaticTimer,     \* NetworkSelector: m_automaticTimer.isActive()
    m_automaticMode,      \* NetworkSelector: bool m_automaticMode
    slot,                 \* NetworkSelector: the slot that ran last, its input,
                          \* the step and timer before it, and what it called
    exitActions           \* NetworkSelector: exitAction messages handled since
                          \* the last expiry of the automatic timer (-1: no
                          \* expiry yet)

vars == <<m_connected, m_packetId, m_keepAliveInterval, m_clientId,
          m_topicHandlers, m_buffer, timerActive, timerInterval, sock, crashed,
          op, pre, emitted, calls, frames, wire, oob,
          stream, fed, delivered, arg, res,
          m_networkSwichtStep, m_automaticTimer, m_automaticMode, slot,
          exitActions>>

selectorVars == <<m_networkSwichtStep, m_automaticTimer, m_automaticMode, slot,
                  exitActions>>

engineVars == <<m_connected, m_packetId, m_keepAliveInterval, m_clientId,
                m_topicHandlers, m_buffer, timerActive, timerInterval, sock,
                crashed, op, pre, emitted, calls, frames, wire, oob>>

----------------------------------------------------------------------------
(* Integer widths *)

\* quint32 values never reach 2^32 here: decodeRemainingLength returns before
\* multiplier exceeds 128^4 = 2^28 and value stays below 2^28, and every
\* length that is encoded is the size of a buffer.  quint32 arithmetic is
\* therefore plain integer arithmetic.
U8  == 256
U16 == 65536

\* x & 0xF0 for a byte x
HighNibble(x) == (x \div 16) * 16

----------------------------------------------------------------------------
(* QString <-> UTF-8.  Code units below 0x80 are one byte, below 0x800 two *)
(* bytes, the others three.  Decoding replaces every byte that does not    *)
(* start a valid sequence by U+FFFD.                                       *)

ReplacementChar == 65533

Utf8OfUnit(u) ==
    IF u < 128 THEN <<u>>
    ELSE IF u < 2048 THEN <<192 + (u \div 64), 128 + (u % 64)>>
    ELSE IF u >= 55296 /\ u <= 57343 THEN <<239, 191, 189>>
    ELSE <<224 + (u \div 4096), 128 + ((u \div 64) % 64), 128 + (u % 64)>>

RECURSIVE toUtf8(_)
toUtf8(s) ==
    IF s = <<>> THEN <<>> ELSE Utf8OfUnit(Head(s)) \o toUtf8(Tail(s))

IsCont(b) == b >= 128 /\ b < 192

RECURSIVE fromUtf8(_)
fromUtf8(b) ==
    IF b = <<>> THEN <<>>
    ELSE LET c == b[1] IN
         IF c < 128 THEN <<c>> \o fromUtf8(Tail(b))
         ELSE IF c >= 194 /\ c < 224 /\ Len(b) >= 2 /\ IsCont(b[2])
              THEN <<(c - 192) * 64 + (b[2] - 128)>> \o fromUtf8(SubSeq(b, 3, Len(b)))
         ELSE IF c >= 224 /\ c < 240 /\ Len(b) >= 3 /\ IsCont(b[2]) /\ IsCont(b[3])
                 /\ LET u == (c - 224) * 4096 + (b[2] - 128) * 64 + (b[3] - 128)
                    IN u >= 2048 /\ ~(u >= 55296 /\ u <= 57343)
              THEN <<(c - 224) * 4096 + (b[2] - 128) * 64 + (b[3] - 128)>>
                   \o fromUtf8(SubSeq(b, 4, Len(b)))
         ELSE <<ReplacementChar>> \o fromUtf8(Tail(b))

\* QString::number(n): the decimal digits of n, most significant first
RECURSIVE Number(_)
Number(n) ==
    LET digit == <<"0", "1", "2", "3", "4", "5", "6", "7", "8", "9">>[(n % 10) + 1]
    IN IF n < 10 THEN <<digit>> ELSE Append(Number(n \div 10), digit)

----------------------------------------------------------------------------
(* Variable-length "remaining length" codec *)

\* variant: the continuation bit is set on every byte, the last included
RECURSIVE encodeRemainingLength_AlwaysContinues(_)
encodeRemainingLength_AlwaysContinues(length) ==
    LET low  == length % 128
        rest == length \div 128
    IN IF rest > 0
       THEN <<low + 128>> \o encodeRemainingLength_AlwaysContinues(rest)
       ELSE <<low + 128>>

\* encodeRemainingLength: the do-while loop; returns the bytes appended
RECURSIVE encodeRemainingLength(_)
encodeRemainingLength(length) ==
    LET low  == length % 128
        rest == length \div 128
        byte == IF rest > 0 THEN low + 128 ELSE low
    IN IF rest > 0 THEN <<byte>> \o encodeRemainingLength(rest) ELSE <<byte>>

\* The guard "multiplier > 128 * 128 * 128" of decodeRemainingLength
TooManyBytes(multiplier) == multiplier > 128 * 128 * 128

\* decodeRemainingLength: the do-while loop.  The result carries the value
\* returned, the cursor as left in the reference parameter (offset++ is never
\* undone), and which return statement was taken (ok = the final "return value").
RECURSIVE DecodeLoop(_, _, _, _)
DecodeLoop(data, offset, multiplier, value) ==
    IF offset >= Len(data)
    THEN [value |-> 0, offset |-> offset, ok |-> FALSE]
    ELSE LET encodedByte == data[offset + 1]
             off         == offset + 1
             v           == value + (encodedByte % 128) * multiplier
             m           == multiplier * 128
         IN IF TooManyBytes(m)
            THEN [value |-> 0, offset |-> off, ok |-> FALSE]
            ELSE IF encodedByte >= 128
                 THEN DecodeLoop(data, off, m, v)
                 ELSE [value |-> v, offset |-> off, ok |-> TRUE]

\* variant: a failing call hands the cursor back where it started
decodeRemainingLength_RestoresCursor(data, offset) ==
    LET d == DecodeLoop(data, offset, 1, 0)
    IN IF d.ok THEN d ELSE [d EXCEPT !.offset = offset]

decodeRemainingLength(data, offset) == DecodeLoop(data, offset, 1, 0)

----------------------------------------------------------------------------
(* Packet construction *)

DefaultKeepAlive == 30

LengthPrefixed(bytes) ==
    <<(Len(bytes) \div 256) % 256, Len(bytes) % 256>> \o bytes

createConnectPacket(clientId, keepAlive) ==
    LET variableHeader == <<0, 4, 77, 81, 84, 84, 4, 2,
                            (keepAlive \div 256) % 256, keepAlive % 256>>
        payload        == LengthPrefixed(toUtf8(clientId))
    IN <<16>> \o encodeRemainingLength(Len(variableHeader) + Len(payload))
            \o variableHeader \o payload

\* variant: the remaining length counts the payload only
createPublishPacket_PayloadLength(topic, payload, qos, retain) ==
    LET fixedHeader    == (48 + (IF retain THEN 1 ELSE 0) + qos * 2) % U8
        variableHeader == LengthPrefixed(toUtf8(topic))
    IN <<fixedHeader>>
       \o encodeRemainingLength(Len(payload))
       \o variableHeader \o payload

\* fixedHeader is a quint8: 0x30 | retain | (qos << 1), truncated to 8 bits.
\* For qos in 0..3 the OR equals the sum.
createPublishPacket(topic, payload, qos, retain) ==
    LET fixedHeader    == (48 + (IF retain THEN 1 ELSE 0) + qos * 2) % U8
        variableHeader == LengthPrefixed(toUtf8(topic))
    IN <<fixedHeader>>
       \o encodeRemainingLength(Len(variableHeader) + Len(payload))
       \o variableHeader \o payload

\* variant: the packet carries the counter value after the increment
createSubscribePacket_NextId(packetId, topic, qos) ==
    LET next           == (packetId + 1) % U16
        variableHeader == <<(next \div 256) % 256, next % 256>>
        payload        == LengthPrefixed(toUtf8(topic)) \o <<qos % U8>>
    IN <<130>> \o encodeRemainingLength(Len(variableHeader) + Len(payload))
             \o variableHeader \o payload

createSubscribePacket(packetId, topic, qos) ==
    LET variableHeader == <<(packetId \div 256) % 256, packetId % 256>>
        payload        == LengthPrefixed(toUtf8(topic)) \o <<qos % U8>>
    IN <<130>> \o encodeRemainingLength(Len(variableHeader) + Len(payload))
             \o variableHeader \o payload

createUnsubscribePacket(packetId, topic) ==
    LET variableHeader == <<(packetId \div 256) % 256, packetId % 256>>
        payload        == LengthPrefixed(toUtf8(topic))
    IN <<162>> \o encodeRemainingLength(Len(variableHeader) + Len(payload))
             \o variableHeader \o payload

createDisconnectPacket == <<224, 0>>

createPingRequestPacket == <<192, 0>>

----------------------------------------------------------------------------
(* The engine state threaded through one operation.  The log fields        *)
(* (events, calls, frames, wire, oob, written) start empty in every call.  *)

Cur ==
    [connected     |-> m_connected,
     packetId      |-> m_packetId,
     keepAlive     |-> m_keepAliveInterval,
     clientId      |-> m_clientId,
     handlers      |-> m_topicHandlers,
     buffer        |-> m_buffer,
     timerActive   |-> timerActive,
     timerInterval |-> timerInterval,
     sock          |-> sock,
     crashed       |-> crashed,
     events        |-> <<>>,
     calls         |-> <<>>,
     frames        |-> <<>>,
     wire          |-> <<>>,
     oob           |-> FALSE,
     written       |-> 0]

NoHandlers == [t \in {} |-> "none"]

\* emit <name>(...): the record keeps what a listener observes at that moment
Signal(st, name, topic, payload, text, number) ==
    [st EXCEPT !.events = Append(@,
        [name |-> name, topic |-> topic, payload |-> payload,
         text |-> text, number |-> number,
         connected |-> st.connected, timerActive |-> st.timerActive,
         handlers |-> st.handlers])]

Emit(st, name)            == Signal(st, name, <<>>, <<>>, "", <<>>)
EmitTopic(st, name, t)    == Signal(st, name, t, <<>>, "", <<>>)
EmitError(st, text)       == Signal(st, "error", <<>>, <<>>, text, <<>>)

\* m_socket->write(packet): -1 when the device is not open or the write
\* fails (wok = FALSE), else the number of bytes accepted
SocketWrite(st, packet, wok) ==
    IF st.sock = "Unconnected" \/ ~wok
    THEN [st EXCEPT !.written = -1]
    ELSE [st EXCEPT !.written = Len(packet), !.wire = @ \o packet]

\* m_topicHandlers[topic] = handler
SetHandler(h, topic, handler) ==
    [t \in (DOMAIN h) \cup {topic} |-> IF t = topic THEN handler ELSE h[t]]

\* m_topicHandlers.remove(topic)
RemoveHandler(h, topic) == [t \in (DOMAIN h) \ {topic} |-> h[t]]

\* variant: the timer is armed with the whole keep-alive interval
KeepAlivePeriod_WholeInterval(keepAlive) == keepAlive * 1000

\* m_keepAliveTimer->start((m_keepAliveInterval * 1000 * 2) / 3): int arithmetic
KeepAlivePeriod(keepAlive) == (keepAlive * 1000 * 2) \div 3

----------------------------------------------------------------------------
(* Public operations *)

publish(st, topic, message, qos, retain, wok) ==
    IF ~st.connected
    THEN EmitError(st, "Nicht verbunden!")
    ELSE LET s1 == SocketWrite(st, createPublishPacket(topic, message, qos, retain), wok)
         IN IF s1.written = -1
            THEN EmitError(s1, "Fehler beim Senden!")
            ELSE EmitTopic(s1, "published", topic)

subscribe(st, topic, qos, wok) ==
    IF ~st.connected
    THEN EmitError(st, "Nicht verbunden!")
    ELSE LET packet == createSubscribePacket(st.packetId, topic, qos)
             s1     == [st EXCEPT !.packetId = (@ + 1) % U16]
             s2     == SocketWrite(s1, packet, wok)
         IN EmitTopic(s2, "subscribed", topic)

subscribeHandler(st, topic, handler, qos, wok) ==
    IF ~st.connected
    THEN EmitError(st, "Nicht verbunden!")
    ELSE LET s0     == [st EXCEPT !.handlers = SetHandler(@, topic, handler)]
             packet == createSubscribePacket(s0.packetId, topic, qos)
             s1     == [s0 EXCEPT !.packetId = (@ + 1) % U16]
             s2     == SocketWrite(s1, packet, wok)
         IN EmitTopic(s2, "subscribed", topic)

\* variant: unsubscribe sends the packet but keeps the handler
unsubscribe_KeepsHandler(st, topic, wok) ==
    IF ~st.connected
    THEN EmitError(st, "Nicht verbunden!")
    ELSE LET packet == createUnsubscribePacket(st.packetId, topic)
             s1     == [st EXCEPT !.packetId = (@ + 1) % U16]
             s2     == SocketWrite(s1, packet, wok)
         IN EmitTopic(s2, "unsubscribed", topic)

\* variant: unsubscribe without the m_connected check
unsubscribe_Unguarded(st, topic, wok) ==
    LET s0     == [st EXCEPT !.handlers = RemoveHandler(@, topic)]
        packet == createUnsubscribePacket(s0.packetId, topic)
        s1     == [s0 EXCEPT !.packetId = (@ + 1) % U16]
        s2     == SocketWrite(s1, packet, wok)
    IN EmitTopic(s2, "unsubscribed", topic)

unsubscribe(st, topic, wok) ==
    IF ~st.connected
    THEN EmitError(st, "Nicht verbunden!")
    ELSE LET s0     == [st EXCEPT !.handlers = RemoveHandler(@, topic)]
             packet == createUnsubscribePacket(s0.packetId, topic)
             s1     == [s0 EXCEPT !.packetId = (@ + 1) % U16]
             s2     == SocketWrite(s1, packet, wok)
         IN EmitTopic(s2, "unsubscribed", topic)

\* variant: a topic that already has a handler keeps it
registerHandler_KeepsFirst(st, topic, handler) ==
    IF topic \in DOMAIN st.handlers
    THEN st
    ELSE [st EXCEPT !.handlers = SetHandler(@, topic, handler)]

registerHandler(st, topic, handler) ==
    [st EXCEPT !.handlers = SetHandler(@, topic, handler)]

unregisterHandler(st, topic) ==
    [st EXCEPT !.handlers = RemoveHandler(@, topic)]

hasHandler(h, topic) == topic \in DOMAIN h

----------------------------------------------------------------------------
(* Slots *)

onConnected(st, wok) ==
    SocketWrite(st, createConnectPacket(st.clientId, st.keepAlive), wok)

\* variant: disconnected() is emitted before the state is reset
onDisconnected_EmitsFirst(st) ==
    LET s0 == Emit(st, "disconnected")
    IN [s0 EXCEPT !.connected = FALSE, !.timerActive = FALSE,
                  !.handlers = NoHandlers]

onDisconnected(st) ==
    Emit([st EXCEPT !.connected = FALSE, !.timerActive = FALSE,
                    !.handlers = NoHandlers],
         "disconnected")

\* variant: the error slot resets m_connected but leaves the timer running
onSocketError_KeepsTimer(st) ==
    EmitError([st EXCEPT !.connected = FALSE], "socket")

onSocketError(st) ==
    EmitError([st EXCEPT !.connected = FALSE, !.timerActive = FALSE],
              "socket")

\* variant: a tick sends PINGREQ and then stops the timer
sendPingRequest_OneShot(st, wok) ==
    IF ~st.connected \/ st.sock # "Connected"
    THEN [st EXCEPT !.timerActive = FALSE]
    ELSE SocketWrite([st EXCEPT !.timerActive = FALSE], createPingRequestPacket, wok)

sendPingRequest(st, wok) ==
    IF ~st.connected \/ st.sock # "Connected"
    THEN [st EXCEPT !.timerActive = FALSE]
    ELSE SocketWrite(st, createPingRequestPacket, wok)

\* variant: DISCONNECT is written and the close requested whatever the
\* transport's state
disconnect_AnyState(st, wok, closes) ==
    LET s0 == [st EXCEPT !.timerActive = FALSE, !.handlers = NoHandlers]
        s1 == SocketWrite(s0, createDisconnectPacket, wok)
    IN IF closes
       THEN onDisconnected([s1 EXCEPT !.sock = "Unconnected"])
       ELSE onSocketError([s1 EXCEPT !.sock = "Closing"])

\* variant: a wait that times out reports nothing
disconnect_SilentTimeout(st, wok, closes) ==
    LET s0 == [st EXCEPT !.timerActive = FALSE, !.handlers = NoHandlers]
    IN IF s0.sock = "Connected"
       THEN LET s1 == SocketWrite(s0, createDisconnectPacket, wok)
            IN IF closes
               THEN onDisconnected([s1 EXCEPT !.sock = "Unconnected"])
               ELSE [s1 EXCEPT !.sock = "Closing"]
       ELSE s0

\* disconnect().  disconnect() assigns nothing to m_connected itself; the
\* flag changes in the slots the socket runs inside disconnectFromHost and
\* waitForDisconnected(1000):
\*   closes      the socket reached the unconnected state and emitted
\*               disconnected() -> onDisconnected
\*   otherwise   the wait timed out, which QAbstractSocket reports as a
\*               socket error through errorOccurred() -> onSocketError; the
\*               socket stays in the closing state
disconnect(st, wok, closes) ==
    LET s0 == [st EXCEPT !.timerActive = FALSE, !.handlers = NoHandlers]
    IN IF s0.sock = "Connected"
       THEN LET s1 == SocketWrite(s0, createDisconnectPacket, wok)
            IN IF closes
               THEN onDisconnected([s1 EXCEPT !.sock = "Unconnected"])
               ELSE onSocketError([s1 EXCEPT !.sock = "Closing"])
       ELSE s0

\* variant: only the first client id is stored, later calls keep it
connectToHost_KeepsFirstId(st, clientId) ==
    LET s0 == IF st.clientId = <<>> THEN [st EXCEPT !.clientId = clientId] ELSE st
    IN IF s0.sock = "Unconnected"
       THEN [s0 EXCEPT !.sock = "Connecting"]
       ELSE onSocketError(s0)

\* connectToHost: QAbstractSocket starts connecting from the unconnected
\* state; in any other state it reports an operation error instead
connectToHost(st, clientId) ==
    LET s0 == [st EXCEPT !.clientId = clientId]
    IN IF s0.sock = "Unconnected"
       THEN [s0 EXCEPT !.sock = "Connecting"]
       ELSE onSocketError(s0)

\* variant: a handler registered under the filter "#" is invoked for every
\* topic that has no handler of its own
handlePublishMessage_Wildcard(st, topic, message) ==
    IF topic \in DOMAIN st.handlers
    THEN [st EXCEPT !.calls = Append(@, [handler |-> st.handlers[topic],
                                         topic |-> topic, payload |-> message])]
    ELSE IF <<35>> \in DOMAIN st.handlers
         THEN [st EXCEPT !.calls = Append(@, [handler |-> st.handlers[<<35>>],
                                              topic |-> topic, payload |-> message])]
         ELSE Signal(st, "messageReceived", topic, message, "", <<>>)

\* variant: the signal is raised whether or not a handler is registered
handlePublishMessage_AlwaysSignals(st, topic, message) ==
    Signal(st, "messageReceived", topic, message, "", <<>>)

handlePublishMessage(st, topic, message) ==
    IF topic \in DOMAIN st.handlers
    THEN [st EXCEPT !.calls = Append(@, [handler |-> st.handlers[topic],
                                         topic |-> topic, payload |-> message])]
    ELSE Signal(st, "messageReceived", topic, message, "", <<>>)

\* The value packetData.at(1) yields: inside the body the byte itself,
\* outside it whatever the build produces (ub; Abort = the bounds assertion
\* of a checked build ends the process)
Abort == -1

\* variant: connected() is emitted before m_connected is set and the timer
\* started
HandleConnAck_EmitsFirst(st, packetData, ub) ==
    IF Len(packetData) >= 2 /\ packetData[2] = 0
    THEN LET s0 == Emit(st, "connected")
         IN [s0 EXCEPT !.connected = TRUE, !.timerActive = TRUE,
                       !.timerInterval = KeepAlivePeriod(st.keepAlive)]
    ELSE IF Len(packetData) >= 2
         THEN Signal(st, "error", <<>>, <<>>,
                     "Verbindung vom Broker abgelehnt (Code: ", Number(packetData[2]))
         ELSE IF ub = Abort
              THEN [st EXCEPT !.oob = TRUE, !.crashed = TRUE]
              ELSE Signal([st EXCEPT !.oob = TRUE], "error", <<>>, <<>>,
                          "Verbindung vom Broker abgelehnt (Code: ", Number(ub))

\* variant: the CONNACK branch accepts any return code
HandleConnAck_AnyCode(st, packetData, ub) ==
    Emit([st EXCEPT !.connected = TRUE, !.timerActive = TRUE,
                    !.timerInterval = KeepAlivePeriod(st.keepAlive)],
         "connected")

\* CONNACK branch of onReadyRead
HandleConnAck(st, packetData, ub) ==
    IF Len(packetData) >= 2 /\ packetData[2] = 0
    THEN Emit([st EXCEPT !.connected = TRUE, !.timerActive = TRUE,
                         !.timerInterval = KeepAlivePeriod(st.keepAlive)],
              "connected")
    ELSE IF Len(packetData) >= 2
         THEN Signal(st, "error", <<>>, <<>>,
                     "Verbindung vom Broker abgelehnt (Code: ", Number(packetData[2]))
         ELSE IF ub = Abort
              THEN [st EXCEPT !.oob = TRUE, !.crashed = TRUE]
              ELSE Signal([st EXCEPT !.oob = TRUE], "error", <<>>, <<>>,
                          "Verbindung vom Broker abgelehnt (Code: ", Number(ub))

\* variant: the declared topic length is not compared with the body; the
\* topic and the payload are cut where the body ends, as mid() does
HandlePublish_NoTopicLengthCheck(st, packetData) ==
    IF Len(packetData) < 2
    THEN st
    ELSE LET topicLength == (packetData[1] * 256 + packetData[2]) % U16
             last == IF 2 + topicLength < Len(packetData)
                     THEN 2 + topicLength ELSE Len(packetData)
         IN handlePublishMessage(st,
                fromUtf8(SubSeq(packetData, 3, last)),
                SubSeq(packetData, last + 1, Len(packetData)))

\* PUBLISH branch of onReadyRead
HandlePublish(st, packetData) ==
    IF Len(packetData) < 2
    THEN st
    ELSE LET topicLength == (packetData[1] * 256 + packetData[2]) % U16
             pos         == 2
         IN IF Len(packetData) < pos + topicLength
            THEN st
            ELSE handlePublishMessage(st,
                    fromUtf8(SubSeq(packetData, pos + 1, pos + topicLength)),
                    SubSeq(packetData, pos + topicLength + 1, Len(packetData)))

\* Packet-type dispatch of onReadyRead
HandlePacket(st, packetType, packetData, ub) ==
    IF HighNibble(packetType) = 32 THEN HandleConnAck(st, packetData, ub)
    ELSE IF HighNibble(packetType) = 48 THEN HandlePublish(st, packetData)
    ELSE st

\* The while loop of onReadyRead
RECURSIVE ProcessLoop(_, _)
ProcessLoop(st, ub) ==
    IF st.buffer = <<>> \/ st.crashed THEN st
    ELSE IF Len(st.buffer) < 2 THEN st
    ELSE LET packetType      == st.buffer[1]
             d               == decodeRemainingLength(st.buffer, 1)
             remainingLength == d.value
             total           == d.offset + remainingLength
         IN IF Len(st.buffer) < total
            THEN st
            ELSE LET packetData == SubSeq(st.buffer, d.offset + 1, total)
                     s1 == [st EXCEPT
                              !.buffer = SubSeq(@, total + 1, Len(@)),
                              !.frames = Append(@,
                                  [type |-> packetType, body |-> packetData,
                                   removed |-> SubSeq(st.buffer, 1, total)])]
                 IN ProcessLoop(HandlePacket(s1, packetType, packetData, ub), ub)

onReadyRead(st, data, ub) ==
    ProcessLoop([st EXCEPT !.buffer = @ \o data], ub)

\* The outcomes of the out-of-bounds reads a call can make: all of values
\* when the call makes one, a single irrelevant one when it makes none
UBOutcomes(st, data, values) ==
    IF onReadyRead(st, data, 0).oob THEN values ELSE {0}

----------------------------------------------------------------------------
(* Bounds and input sets *)

MaxBuf      == 6      \* longest receive buffer explored
MaxPacketId == 3      \* packet ids explored: 1..MaxPacketId
MaxChunk    == 4      \* framer runs: a delivery has 1..MaxChunk bytes or all the rest

TopicA   == <<97>>            \* "a"
TopicAB  == <<97, 47, 98>>    \* "a/b"
TopicWild == <<35>>           \* "#", the filter that matches every topic
Topics   == {TopicA, TopicWild}
Handlers == {"h1", "h2"}
ClientIds == {<<99, 49>>, <<100>>}      \* "c1", "d"
PublishInputs ==
    {[topic |-> TopicAB, payload |-> <<1, 2, 3>>, qos |-> 0, retain |-> FALSE],
     [topic |-> TopicA,  payload |-> <<>>,        qos |-> 1, retain |-> TRUE]}
UBValues == {Abort, 0, 1}
UBChoices(st, data) == UBOutcomes(st, data, UBValues)

ConnAckOk       == <<32, 2, 0, 0>>
ConnAckRefused  == <<32, 2, 0, 1>>
ConnAckRefused2 == <<32, 2, 1, 135>>
ConnAckShort    == <<32, 0>>
PublishA        == <<48, 4, 0, 1, 97, 7>>      \* PUBLISH "a" payload 07
PublishBad      == <<48, 2, 0, 5>>             \* topic length 5, no topic bytes
PublishShort    == <<48, 1, 0>>                \* body of one byte
PublishEmptyThenConnAck == <<48, 0>> \o ConnAckOk  \* empty body, then a CONNACK
SubAck          == <<144, 3, 0, 1, 0>>
PingResp        == <<208, 0>>

PublishAHead    == <<48, 4, 0, 1>>             \* PublishA cut after 4 bytes
PublishATail    == <<97, 7>>
LengthCut       == <<48, 128>>                 \* length field not terminated
LengthOverlong  == <<48, 128, 128, 128, 1>>    \* 4-byte length field
LengthInvalid   == <<48, 128, 128, 128, 128>>  \* no terminating byte in 4 length bytes

Chunks ==
    {ConnAckOk, ConnAckRefused, ConnAckRefused2, ConnAckShort,
     PublishA, PublishAHead, PublishATail, PublishBad,
     PublishEmptyThenConnAck,
     SubAck, LengthCut, LengthOverlong, LengthInvalid}

----------------------------------------------------------------------------
(* State machine of one engine instance and its transport *)

NoOp ==
    [name |-> "none", topic |-> <<>>, handler |-> "none", payload |-> <<>>,
     qos |-> 0, retain |-> FALSE, data |-> <<>>, wok |-> TRUE,
     closes |-> FALSE, clientId |-> <<>>]

Snapshot(st) ==
    [connected |-> st.connected, packetId |-> st.packetId,
     handlers |-> st.handlers, buffer |-> st.buffer,
     timerActive |-> st.timerActive, sock |-> st.sock]

\* NetworkSelector's own members after construction: the member initialisers
\* of the class, the automatic timer configured but not started
NoSlot ==
    [name |-> "none", msg |-> <<>>, step |-> 0, timer |-> FALSE, log |-> <<>>]

InitSelectorMembers ==
    /\ m_networkSwichtStep = 0
    /\ m_automaticTimer = FALSE
    /\ m_automaticMode = TRUE
    /\ slot = NoSlot
    /\ exitActions = -1

\* The state after construction (MqttClient::MqttClient)
InitEngine ==
    /\ m_connected = FALSE
    /\ m_packetId = 1
    /\ m_keepAliveInterval = DefaultKeepAlive
    /\ m_clientId = <<>>
    /\ m_topicHandlers = NoHandlers
    /\ m_buffer = <<>>
    /\ timerActive = FALSE
    /\ timerInterval = 0
    /\ sock = "Unconnected"
    /\ crashed = FALSE
    /\ op = NoOp
    /\ pre = [connected |-> FALSE, packetId |-> 1, handlers |-> NoHandlers,
              buffer |-> <<>>, timerActive |-> FALSE, sock |-> "Unconnected"]
    /\ emitted = <<>>
    /\ calls = <<>>
    /\ frames = <<>>
    /\ wire = <<>>
    /\ oob = FALSE

\* Store the outcome st of operation o
Commit(st, o) ==
    /\ m_connected' = st.connected
    /\ m_packetId' = st.packetId
    /\ m_keepAliveInterval' = st.keepAlive
    /\ m_clientId' = st.clientId
    /\ m_topicHandlers' = st.handlers
    /\ m_buffer' = st.buffer
    /\ timerActive' = st.timerActive
    /\ timerInterval' = st.timerInterval
    /\ sock' = st.sock
    /\ crashed' = st.crashed
    /\ op' = o
    /\ pre' = Snapshot(Cur)
    /\ emitted' = st.events
    /\ calls' = st.calls
    /\ frames' = st.frames
    /\ wire' = st.wire
    /\ oob' = st.oob

Init ==
    /\ InitEngine
    /\ stream = <<>>
    /\ fed = 0
    /\ delivered = <<>>
    /\ arg = 0
    /\ res = 0
    /\ InitSelectorMembers

ConnectToHost ==
    /\ ~crashed
    /\ \E c \in ClientIds :
          Commit(connectToHost(Cur, c),
                 [NoOp EXCEPT !.name = "connectToHost", !.clientId = c])
    /\ UNCHANGED <<stream, fed, delivered, arg, res, selectorVars>>

\* the transport's connected() signal
TransportConnected ==
    /\ ~crashed
    /\ sock = "Connecting"
    /\ \E wok \in BOOLEAN :
          Commit(onConnected([Cur EXCEPT !.sock = "Connected"], wok),
                 [NoOp EXCEPT !.name = "onConnected", !.wok = wok])
    /\ UNCHANGED <<stream, fed, delivered, arg, res, selectorVars>>

\* the transport's disconnected() signal
TransportDisconnected ==
    /\ ~crashed
    /\ sock \in {"Connected", "Closing"}
    /\ Commit(onDisconnected([Cur EXCEPT !.sock = "Unconnected"]),
              [NoOp EXCEPT !.name = "onDisconnected"])
    /\ UNCHANGED <<stream, fed, delivered, arg, res, selectorVars>>

\* the transport's errorOccurred() signal; a failed connection attempt
\* leaves the socket unconnected
TransportError ==
    /\ ~crashed
    /\ sock # "Unconnected"
    /\ Commit(onSocketError([Cur EXCEPT !.sock =
                 IF @ = "Connecting" THEN "Unconnected" ELSE @]),
              [NoOp EXCEPT !.name = "onSocketError"])
    /\ UNCHANGED <<stream, fed, delivered, arg, res, selectorVars>>

\* the transport's readyRead() signal with the bytes readAll() returns
ReadyRead ==
    /\ ~crashed
    /\ sock = "Connected"
    /\ \E data \in Chunks :
          /\ Len(m_buffer) + Len(data) <= MaxBuf
          /\ \E ub \in UBChoices(Cur, data) :
                Commit(onReadyRead(Cur, data, ub),
                       [NoOp EXCEPT !.name = "onReadyRead", !.data = data])
    /\ UNCHANGED <<stream, fed, delivered, arg, res, selectorVars>>

\* the keep-alive timer's timeout() signal
KeepAliveTick ==
    /\ ~crashed
    /\ timerActive
    /\ \E wok \in BOOLEAN :
          Commit(sendPingRequest(Cur, wok),
                 [NoOp EXCEPT !.name = "sendPingRequest", !.wok = wok])
    /\ UNCHANGED <<stream, fed, delivered, arg, res, selectorVars>>

Publish ==
    /\ ~crashed
    /\ \E i \in PublishInputs, wok \in BOOLEAN :
          Commit(publish(Cur, i.topic, i.payload, i.qos, i.retain, wok),
                 [NoOp EXCEPT !.name = "publish", !.topic = i.topic,
                              !.payload = i.payload, !.qos = i.qos,
                              !.retain = i.retain, !.wok = wok])
    /\ UNCHANGED <<stream, fed, delivered, arg, res, selectorVars>>

Subscribe ==
    /\ ~crashed
    /\ m_packetId < MaxPacketId
    /\ \E t \in Topics, wok \in BOOLEAN :
          Commit(subscribe(Cur, t, 0, wok),
                 [NoOp EXCEPT !.name = "subscribe", !.topic = t, !.wok = wok])
    /\ UNCHANGED <<stream, fed, delivered, arg, res, selectorVars>>

SubscribeHandler ==
    /\ ~crashed
    /\ m_packetId < MaxPacketId
    /\ \E t \in Topics, h \in Handlers, wok \in BOOLEAN :
          Commit(subscribeHandler(Cur, t, h, 0, wok),
                 [NoOp EXCEPT !.name = "subscribeHandler", !.topic = t,
                              !.handler = h, !.wok = wok])
    /\ UNCHANGED <<stream, fed, delivered, arg, res, selectorVars>>

Unsubscribe ==
    /\ ~crashed
    /\ m_packetId < MaxPacketId
    /\ \E t \in Topics, wok \in BOOLEAN :
          Commit(unsubscribe(Cur, t, wok),
                 [NoOp EXCEPT !.name = "unsubscribe", !.topic = t, !.wok = wok])
    /\ UNCHANGED <<stream, fed, delivered, arg, res, selectorVars>>

RegisterHandler ==
    /\ ~crashed
    /\ \E t \in Topics, h \in Handlers :
          Commit(registerHandler(Cur, t, h),
                 [NoOp EXCEPT !.name = "registerHandler", !.topic = t,
                              !.handler = h])
    /\ UNCHANGED <<stream, fed, delivered, arg, res, selectorVars>>

UnregisterHandler ==
    /\ ~crashed
    /\ \E t \in Topics :
          Commit(unregisterHandler(Cur, t),
                 [NoOp EXCEPT !.name = "unregisterHandler", !.topic = t])
    /\ UNCHANGED <<stream, fed, delivered, arg, res, selectorVars>>

Disconnect ==
    /\ ~crashed
    /\ \E wok \in BOOLEAN, closes \in BOOLEAN :
          Commit(disconnect(Cur, wok, closes),
                 [NoOp EXCEPT !.name = "disconnect", !.wok = wok,
                              !.closes = closes])
    /\ UNCHANGED <<stream, fed, delivered, arg, res, selectorVars>>

Next ==
    \/ ConnectToHost
    \/ TransportConnected
    \/ TransportDisconnected
    \/ TransportError
    \/ ReadyRead
    \/ KeepAliveTick
    \/ Publish
    \/ Subscribe
    \/ SubscribeHandler
    \/ Unsubscribe
    \/ RegisterHandler
    \/ UnregisterHandler
    \/ Disconnect

Spec == Init /\ [][Next]_vars

----------------------------------------------------------------------------
(* Framer runs: one byte stream of well-formed frames is delivered to      *)
(* onReadyRead in pieces cut at arbitrary byte boundaries.                 *)

\* PUBLISH "a" with a 125-byte payload: remaining length 128 = 0x80 0x01
BigPayload == [i \in 1..125 |-> 0]
PublishBig == <<48, 128, 1, 0, 1, 97>> \o BigPayload

WellFormedStreams ==
    {ConnAckOk \o PublishA \o PingResp,
     SubAck \o PublishA \o PublishA,
     PublishA \o ConnAckRefused,
     PublishBig \o PingResp}

\* what the packet-type handling was given: type byte and body
FrameView(fs) == [i \in 1..Len(fs) |-> [type |-> fs[i].type, body |-> fs[i].body]]

\* the engine right after onConnected: CONNECT sent, CONNACK awaited
InitFramer ==
    /\ m_connected = FALSE
    /\ m_packetId = 1
    /\ m_keepAliveInterval = DefaultKeepAlive
    /\ m_clientId \in ClientIds
    /\ m_topicHandlers = NoHandlers
    /\ m_buffer = <<>>
    /\ timerActive = FALSE
    /\ timerInterval = 0
    /\ sock = "Connected"
    /\ crashed = FALSE
    /\ op = [NoOp EXCEPT !.name = "onConnected"]
    /\ pre = [connected |-> FALSE, packetId |-> 1, handlers |-> NoHandlers,
              buffer |-> <<>>, timerActive |-> FALSE, sock |-> "Connecting"]
    /\ emitted = <<>>
    /\ calls = <<>>
    /\ frames = <<>>
    /\ wire = createConnectPacket(m_clientId, DefaultKeepAlive)
    /\ oob = FALSE
    /\ stream \in WellFormedStreams
    /\ fed = 0
    /\ delivered = <<>>
    /\ arg = 0
    /\ res = 0
    /\ InitSelectorMembers

\* readyRead() with the next k bytes of the stream
Feed ==
    /\ ~crashed
    /\ fed < Len(stream)
    /\ \E k \in {j \in 1..(Len(stream) - fed) : j <= MaxChunk \/ j = Len(stream) - fed} :
          LET data == SubSeq(stream, fed + 1, fed + k)
          IN \E ub \in UBChoices(Cur, data) :
                LET st == onReadyRead(Cur, data, ub)
                IN /\ Commit(st, [NoOp EXCEPT !.name = "onReadyRead", !.data = data])
                   /\ fed' = fed + k
                   /\ delivered' = delivered \o FrameView(st.frames)
    /\ UNCHANGED <<stream, arg, res, selectorVars>>

NextFramer == Feed

FramerSpec == InitFramer /\ [][NextFramer]_vars

\* the frames onReadyRead processes when the whole stream arrives at once
Contiguous(s) ==
    FrameView(onReadyRead(
        [Cur EXCEPT !.connected = FALSE, !.buffer = <<>>, !.handlers = NoHandlers,
                    !.timerActive = FALSE, !.crashed = FALSE], s, 0).frames)

----------------------------------------------------------------------------
(* Codec runs: the pure functions applied to inputs drawn from bounded sets *)

MaxLenBytes == 5      \* longest buffer handed to decodeRemainingLength

EncodeInputs ==
    (0..40) \cup (120..135) \cup {321} \cup (16380..16390)
    \cup (2097148..2097156) \cup (268435450..268435455)

ByteAlphabet == {0, 127, 128, 255}

RECURSIVE SeqsUpTo(_, _)
SeqsUpTo(S, n) ==
    IF n = 0 THEN {<<>>}
    ELSE LET shorter == SeqsUpTo(S, n - 1)
         IN shorter \cup {Append(q, x) : q \in {r \in shorter : Len(r) = n - 1}, x \in S}

DecodeInputs ==
    {[kind |-> "decode", n |-> 0, data |-> d, offset |-> o] :
        d \in SeqsUpTo(ByteAlphabet, MaxLenBytes), o \in 0..MaxLenBytes}

\* n bytes 00
Zeros(n) == [i \in 1..n |-> 0]

\* the largest remaining length with a 3-byte length field
LargestThreeByteLength == 128 * 128 * 128 - 1

\* first bytes of the long payloads: read as a frame header they announce
\* more bytes than any of these payloads has
LongPayloadHead == <<48, 255, 255, 127>>

\* publish arguments: the payload is data followed by n bytes 00.  The last
\* two have, with the 3 bytes of the length-prefixed topic "a", a remaining
\* length of 2097151 and of 2097152.
PublishRoundTripInputs ==
    {[kind |-> "publish", n |-> n, data |-> d, offset |-> 0,
      topic |-> t, qos |-> q, retain |-> r] :
        n \in {0, 120},
        d \in {<<>>, <<1, 2, 3>>, <<255>>},
        t \in {<<>>, TopicA, TopicAB, <<228>>, <<8364, 47, 98>>},
        q \in 0..2, r \in BOOLEAN}
    \cup
    {[kind |-> "publish", n |-> n, data |-> LongPayloadHead, offset |-> 0,
      topic |-> TopicA, qos |-> 1, retain |-> FALSE] :
        n \in {LargestThreeByteLength - 7, LargestThreeByteLength - 6}}

InitCodec ==
    /\ InitEngine
    /\ stream = <<>>
    /\ fed = 0
    /\ delivered = <<>>
    /\ arg \in {[kind |-> "encode", n |-> n, data |-> <<>>, offset |-> 0] :
                    n \in EncodeInputs}
               \cup {a \in DecodeInputs : a.offset <= Len(a.data)}
               \cup PublishRoundTripInputs
    /\ res = [done |-> FALSE]
    /\ InitSelectorMembers

\* encodeRemainingLength(buffer, n) on an empty buffer, then
\* decodeRemainingLength on the result from cursor 0
EncodeThenDecode ==
    /\ arg.kind = "encode"
    /\ ~res.done
    /\ LET bytes == encodeRemainingLength(arg.n)
           d     == decodeRemainingLength(bytes, 0)
       IN res' = [done |-> TRUE, bytes |-> bytes, value |-> d.value,
                  offset |-> d.offset, ok |-> d.ok]
    /\ UNCHANGED <<engineVars, stream, fed, delivered, arg, selectorVars>>

\* decodeRemainingLength(data, offset)
Decode ==
    /\ arg.kind = "decode"
    /\ ~res.done
    /\ LET d == decodeRemainingLength(arg.data, arg.offset)
       IN res' = [done |-> TRUE, bytes |-> arg.data, value |-> d.value,
                  offset |-> d.offset, ok |-> d.ok]
    /\ UNCHANGED <<engineVars, stream, fed, delivered, arg, selectorVars>>

\* the indices of the messageReceived signals in the log evs
Received(evs) == {i \in 1..Len(evs) : evs[i].name = "messageReceived"}

\* createPublishPacket(topic, payload, qos, retain), then onReadyRead of a
\* newly constructed engine (empty receive buffer, no handler) with the
\* packet; the result keeps the first byte of the packet and what the
\* messageReceived signals carried
PublishThenReceive ==
    /\ arg.kind = "publish"
    /\ ~res.done
    /\ LET payload == arg.data \o Zeros(arg.n)
           packet  == createPublishPacket(arg.topic, payload, arg.qos, arg.retain)
           st      == onReadyRead(Cur, packet, 0)
           got     == Received(st.events)
       IN res' = [done     |-> TRUE,
                  first    |-> packet[1],
                  size     |-> Len(packet),
                  received |-> Cardinality(got),
                  topics   |-> {st.events[i].topic : i \in got},
                  same     |-> \A i \in got : st.events[i].payload = payload,
                  frames   |-> Len(st.frames),
                  left     |-> Len(st.buffer)]
    /\ UNCHANGED <<engineVars, stream, fed, delivered, arg, selectorVars>>

NextCodec == EncodeThenDecode \/ Decode \/ PublishThenReceive

CodecSpec == InitCodec /\ [][NextCodec]_vars

----------------------------------------------------------------------------
(* NetworkSelector: the application object that owns one MqttClient, the    *)
(* automatic timer and the step counter of the network switching sequence. *)
(* QStrings are sequences of code units; the texts below are ASCII.        *)

NetworkSwitchId == <<78, 101, 116, 119, 111, 114, 107, 83, 119, 105, 116, 99, 104>>
MessageNew      == <<109, 101, 115, 115, 97, 103, 101, 47, 110, 101, 119>>
MessageErr      == <<109, 101, 115, 115, 97, 103, 101, 47, 101, 114, 114>>
ActionTask      == <<97, 99, 116, 105, 111, 110, 47, 116, 97, 115, 107>>
NetworkSecure   == <<110, 101, 116, 119, 111, 114, 107, 47, 115, 101, 99, 117, 114, 101>>
NetworkUnsecure == <<110, 101, 116, 119, 111, 114, 107, 47, 117, 110, 115, 101, 99,
                     117, 114, 101>>
ExitAction      == <<101, 120, 105, 116, 65, 99, 116, 105, 111, 110>>
TrueText        == <<84, 82, 85, 69>>

\* QString::contains(sub), case sensitive
Contains(str, sub) ==
    \E i \in 0..(Len(str) - Len(sub)) : SubSeq(str, i + 1, i + Len(sub)) = sub

\* QString(const QByteArray &) for a payload without NUL bytes
QStringOf(bytes) == fromUtf8(bytes)

\* The selector state threaded through one slot: its members, the engine it
\* owns, what the slot called (log) and the result of the last switch call
CurSelector ==
    [mqtt  |-> Cur,
     step  |-> m_networkSwichtStep,
     timer |-> m_automaticTimer,
     mode  |-> m_automaticMode,
     log   |-> <<>>,
     ok    |-> FALSE]

Called(s, what) == [s EXCEPT !.log = Append(@, what)]

MqttPublish(s, topic, wok) ==
    [Called(s, <<"publish", topic, TrueText>>) EXCEPT
        !.mqtt = publish(@, topic, TrueText, 0, FALSE, wok)]

\* onMqttConnected: three subscriptions with handlers, when connected
onMqttConnected(s, wok) ==
    IF s.mqtt.connected
    THEN LET m1 == subscribeHandler(s.mqtt, MessageNew, "newMessage", 0, wok)
             m2 == subscribeHandler(m1, MessageErr, "errMessage", 0, wok)
             m3 == subscribeHandler(m2, ActionTask, "onActionTask", 0, wok)
         IN [s EXCEPT !.mqtt = m3]
    ELSE s

\* switchToNetwork(relais, errorMsg, timeoutMs): the switch device answers
\* within the timeout ("switched") or not ("timeout"); both ids is the case
\* of settings that name one relay as secure and as unsecure network
switchToNetwork(s, secure, how, bothIds, wok) ==
    LET s0 == Called(s, <<"switchToNetwork", secure>>)
    IN IF how = "switched"
       THEN LET s1 == IF secure \/ bothIds
                      THEN MqttPublish(s0, NetworkSecure, wok) ELSE s0
                s2 == IF ~secure \/ bothIds
                      THEN MqttPublish(s1, NetworkUnsecure, wok) ELSE s1
            IN [s2 EXCEPT !.ok = TRUE]
       ELSE [Called(s0, <<"errMessage">>) EXCEPT !.ok = FALSE]

\* switchToSecure: true at once without a switch device or with the secure
\* network already connected ("present"), else the outcome of the switch
switchToSecure(s, how, bothIds, wok) ==
    LET s0 == Called(s, <<"switchToSecure">>)
    IN IF how = "present"
       THEN [s0 EXCEPT !.ok = TRUE]
       ELSE switchToNetwork(s0, TRUE, how, bothIds, wok)

switchToUnsecure(s, how, bothIds, wok) ==
    LET s0 == Called(s, <<"switchToUnsecure">>)
    IN IF how = "present"
       THEN [s0 EXCEPT !.ok = TRUE]
       ELSE switchToNetwork(s0, FALSE, how, bothIds, wok)

\* while(nCount++ != 5) if (switchTo...(20000)) break;
\* plan[i] is the outcome of the i-th call
MaxTries == 5

RECURSIVE TryLoop(_, _, _, _, _, _)
TryLoop(s, secure, nCount, plan, bothIds, wok) ==
    IF nCount = MaxTries
    THEN s
    ELSE LET r == IF secure
                  THEN switchToSecure(s, plan[nCount + 1], bothIds, wok)
                  ELSE switchToUnsecure(s, plan[nCount + 1], bothIds, wok)
         IN IF r.ok THEN r
            ELSE TryLoop(r, secure, nCount + 1, plan, bothIds, wok)

\* variant: the step counter starts over after the third step
onActionTask_Cyclic(s, msg, plan, bothIds, wok) ==
    IF Contains(msg, ExitAction)
    THEN LET s1 == [s EXCEPT !.step = (@ % 3) + 1]
         IN CASE s1.step = 1 -> TryLoop(s1, FALSE, 0, plan, bothIds, wok)
              [] s1.step = 2 -> TryLoop(s1, TRUE, 0, plan, bothIds, wok)
              [] s1.step = 3 ->
                    Called(Called(Called([s1 EXCEPT !.timer = TRUE],
                        <<"setInterval">>), <<"start">>), <<"newMessage">>)
              [] OTHER -> s1
    ELSE s

onActionTask(s, msg, plan, bothIds, wok) ==
    IF Contains(msg, ExitAction)
    THEN LET s1 == [s EXCEPT !.step = @ + 1]
         IN CASE s1.step = 1 -> TryLoop(s1, FALSE, 0, plan, bothIds, wok)
              [] s1.step = 2 -> TryLoop(s1, TRUE, 0, plan, bothIds, wok)
              [] s1.step = 3 ->
                    Called(Called(Called([s1 EXCEPT !.timer = TRUE],
                        <<"setInterval">>), <<"start">>), <<"newMessage">>)
              [] OTHER -> s1
    ELSE s

onSwitchNetworkInterval(s, wok) ==
    LET s0 == Called(s, <<"newMessage">>)
        s1 == Called([s0 EXCEPT !.timer = FALSE], <<"stop">>)
        s2 == [s1 EXCEPT !.step = 0]
    IN MqttPublish(s2, NetworkSecure, wok)

onToggleMode(s) ==
    LET s0 == [s EXCEPT !.mode = ~@]
        s1 == IF s0.mode
              THEN Called([s0 EXCEPT !.timer = TRUE], <<"start">>)
              ELSE Called([s0 EXCEPT !.timer = FALSE], <<"stop">>)
    IN Called(s1, <<"setAutomaticMode">>)

\* The listeners and handlers the engine runs from one onReadyRead call that
\* processed a single frame: connected() -> onMqttConnected, the handler of
\* "action/task" -> onActionTask(QString(msg)); the other handlers and
\* onMqttError only report
Listeners(s, plan, bothIds, wok) ==
    IF \E i \in 1..Len(s.mqtt.events) : s.mqtt.events[i].name = "connected"
    THEN onMqttConnected(s, wok)
    ELSE IF s.mqtt.calls # <<>> /\ s.mqtt.calls[1].handler = "onActionTask"
         THEN onActionTask(s, QStringOf(s.mqtt.calls[1].payload), plan, bothIds, wok)
         ELSE s

\* Bounds and inputs of the selector runs
MaxStep == 4              \* exitAction messages are delivered while the step is below
MaxSelectorPacketId == 1  \* an accepting CONNACK is delivered while the packet id is at most this

ActionPayloads ==
    {ExitAction,
     <<123, 34>> \o ExitAction \o <<34, 125>>,       \* {"exitAction"}
     <<255>> \o ExitAction,                          \* invalid UTF-8 in front
     <<101, 120, 105, 116, 97, 99, 116, 105, 111, 110>>}   \* exitaction

\* outcomes of up to MaxTries calls: k timeouts, then a success, or timeouts only
TryPlan(k, last) == [i \in 1..MaxTries |-> IF i = k + 1 THEN last ELSE "timeout"]
NoPlan == [i \in 1..MaxTries |-> "timeout"]

\* what the environment decides during one step that switches: the outcomes
\* of the calls, whether the settings name one relay for both networks, and
\* whether the transport accepts the writes (the last two matter when a
\* switch succeeds)
SwitchInputs ==
    {[plan |-> TryPlan(k, "present"), bothIds |-> FALSE, wok |-> TRUE] :
        k \in {0, MaxTries - 1}}
    \cup {[plan |-> TryPlan(k, "switched"), bothIds |-> b, wok |-> w] :
        k \in {0, MaxTries - 1}, b \in BOOLEAN, w \in BOOLEAN}
    \cup {[plan |-> NoPlan, bothIds |-> FALSE, wok |-> TRUE]}

NoSwitchInputs(data) ==
    {[plan |-> NoPlan, bothIds |-> FALSE, wok |-> w] :
        w \in IF data = ConnAckOk THEN BOOLEAN ELSE {TRUE}}

SelectorFrames ==
    {ConnAckOk, ConnAckRefused,
     createPublishPacket(MessageNew, <<120>>, 0, FALSE),
     createPublishPacket(NetworkSecure, TrueText, 0, FALSE)}
    \cup {createPublishPacket(ActionTask, b, 0, FALSE) : b \in ActionPayloads}

CommitSelector(s, o, name, msg) ==
    /\ Commit(s.mqtt, o)
    /\ m_networkSwichtStep' = s.step
    /\ m_automaticTimer' = s.timer
    /\ m_automaticMode' = s.mode
    /\ slot' = [name |-> name, msg |-> msg, step |-> m_networkSwichtStep,
                timer |-> m_automaticTimer, log |-> s.log]
    /\ UNCHANGED <<stream, fed, delivered, arg, res>>

\* NetworkSelector::NetworkSelector: the engine is constructed and
\* connectToHost("localhost", 1883, "NetworkSwitch") called
InitSelector ==
    /\ m_connected = FALSE
    /\ m_packetId = 1
    /\ m_keepAliveInterval = DefaultKeepAlive
    /\ m_clientId = NetworkSwitchId
    /\ m_topicHandlers = NoHandlers
    /\ m_buffer = <<>>
    /\ timerActive = FALSE
    /\ timerInterval = 0
    /\ sock = "Connecting"
    /\ crashed = FALSE
    /\ op = [NoOp EXCEPT !.name = "connectToHost", !.clientId = NetworkSwitchId]
    /\ pre = [connected |-> FALSE, packetId |-> 1, handlers |-> NoHandlers,
              buffer |-> <<>>, timerActive |-> FALSE, sock |-> "Unconnected"]
    /\ emitted = <<>>
    /\ calls = <<>>
    /\ frames = <<>>
    /\ wire = <<>>
    /\ oob = FALSE
    /\ stream = <<>>
    /\ fed = 0
    /\ delivered = <<>>
    /\ arg = 0
    /\ res = 0
    /\ InitSelectorMembers

\* The handler call a delivered frame leads to, if any
TaskOf(data) ==
    LET m == onReadyRead(Cur, data, 0)
    IN IF m.calls # <<>> /\ m.calls[1].handler = "onActionTask"
       THEN <<m.calls[1].payload>> ELSE <<>>

\* readyRead() with one whole frame; the listeners run inside the call.
\* The outcomes of the switch calls and of the writes are chosen where the
\* call makes any.
SelectorReadyRead ==
    /\ sock = "Connected"
    /\ \E data \in SelectorFrames :
          LET task     == TaskOf(data) # <<>>
              isExit   == task /\ Contains(TaskOf(data)[1], ExitAction)
              switches == isExit /\ m_networkSwichtStep \in {0, 1}
          IN /\ (data = ConnAckOk) => (m_packetId <= MaxSelectorPacketId)
             /\ isExit => (m_networkSwichtStep < MaxStep)
             /\ \E i \in IF switches THEN SwitchInputs ELSE NoSwitchInputs(data) :
                   CommitSelector(
                       Listeners([CurSelector EXCEPT !.mqtt = onReadyRead(@, data, 0)],
                                 i.plan, i.bothIds, i.wok),
                       [NoOp EXCEPT !.name = "onReadyRead", !.data = data, !.wok = i.wok],
                       IF task THEN "onActionTask" ELSE "onReadyRead",
                       IF task THEN TaskOf(data)[1] ELSE <<>>)
             /\ exitActions' = IF isExit /\ exitActions >= 0
                               THEN exitActions + 1 ELSE exitActions

\* timeout() of m_automaticTimer
AutomaticTimerExpiry ==
    /\ m_automaticTimer
    /\ \E wok \in BOOLEAN :
          CommitSelector(onSwitchNetworkInterval(CurSelector, wok),
              [NoOp EXCEPT !.name = "publish", !.topic = NetworkSecure,
                           !.payload = TrueText, !.wok = wok],
              "onSwitchNetworkInterval", <<>>)
    /\ exitActions' = 0

\* start() and stop() of the selector
SelectorStart ==
    /\ CommitSelector(Called([CurSelector EXCEPT !.timer = TRUE], <<"start">>),
                      NoOp, "start", <<>>)
    /\ UNCHANGED exitActions

SelectorStop ==
    /\ CommitSelector(Called([CurSelector EXCEPT !.timer = FALSE], <<"stop">>),
                      NoOp, "stop", <<>>)
    /\ UNCHANGED exitActions

ToggleMode ==
    /\ CommitSelector(onToggleMode(CurSelector), NoOp, "onToggleMode", <<>>)
    /\ UNCHANGED exitActions

NextSelector ==
    \/ TransportConnected
    \/ TransportDisconnected
    \/ TransportError
    \/ KeepAliveTick
    \/ SelectorReadyRead
    \/ AutomaticTimerExpiry
    \/ SelectorStart
    \/ SelectorStop
    \/ ToggleMode

SelectorSpec == InitSelector /\ [][NextSelector]_vars

----------------------------------------------------------------------------
(* Properties *)

\* number of signals called name in the log evs
Count(evs, name) == Cardinality({i \in 1..Len(evs) : evs[i].name = name})

\* value of a base-128 digit string, least significant digit first
RECURSIVE VarIntValue(_)
VarIntValue(bytes) ==
    IF bytes = <<>> THEN 0
    ELSE (bytes[1] % 128) + 128 * VarIntValue(Tail(bytes))

\* r is exactly one complete frame with a k-byte length field: type byte,
\* k - 1 continuation bytes, a terminating byte, and as many body bytes as
\* the length field says
IsFrameWithLengthBytes(r, k) ==
    /\ Len(r) >= 1 + k
    /\ \A j \in 1..(k - 1) : r[1 + j] >= 128
    /\ r[1 + k] < 128
    /\ Len(r) = 1 + k + VarIntValue(SubSeq(r, 2, 1 + k))

\* C1: a stream of well-formed frames delivered in pieces yields the same
\* sequence of processed frames (type byte and body) as delivered at once.
C1_SplitEqualsContiguous ==
    (fed = Len(stream) /\ fed > 0 /\ ~crashed) => delivered = Contiguous(stream)

\* C2: every prefix onReadyRead removes from the receive buffer is exactly one
\* complete frame, and the body handed to the packet-type handling is the
\* body of that frame.
C2_RemovedPrefixIsCompleteFrame ==
    \A i \in 1..Len(frames) :
        \E k \in 1..4 :
            /\ IsFrameWithLengthBytes(frames[i].removed, k)
            /\ frames[i].type = frames[i].removed[1]
            /\ frames[i].body = SubSeq(frames[i].removed, 2 + k, Len(frames[i].removed))

\* C3: decodeRemainingLength(encodeRemainingLength(n)) = n for the values n
\* of 0..268435455.
C3_RoundTrip ==
    (arg.kind = "encode" /\ res.done) => res.value = arg.n

\* C4: receiving 0x20 0x02 0x00 0x00 on an empty receive buffer makes
\* isConnected() true, arms the keep-alive timer with 2/3 of the keep-alive
\* interval (20000 ms for 30 s) and raises connected exactly once.
C4_ConnAckAccepted ==
    (op.name = "onReadyRead" /\ op.data = ConnAckOk /\ pre.buffer = <<>>) =>
        /\ m_connected
        /\ timerActive
        /\ timerInterval = 20000
        /\ 3 * timerInterval = 2 * 1000 * m_keepAliveInterval
        /\ Count(emitted, "connected") = 1

C4_Witness ==
    /\ op.name = "onReadyRead" /\ op.data = ConnAckOk /\ pre.buffer = <<>>
    /\ ~pre.connected /\ ~pre.timerActive
    /\ wire = <<>>
    /\ m_connected /\ timerActive /\ timerInterval = 20000
    /\ Len(emitted) = 1 /\ emitted[1].name = "connected"

\* C5: a CONNACK with a non-zero return code received while awaiting CONNACK
\* leaves isConnected() false and the timer unarmed, raises no connected
\* event and exactly one error event carrying the decimal code, and writes
\* nothing to the transport.
C5_ConnAckRefused ==
    (/\ op.name = "onReadyRead"
     /\ op.data \in {ConnAckRefused, ConnAckRefused2}
     /\ pre.buffer = <<>> /\ ~pre.connected) =>
        /\ ~m_connected
        /\ ~timerActive
        /\ Count(emitted, "connected") = 0
        /\ Count(emitted, "error") = 1
        /\ Len(emitted) = 1
        /\ op.data = ConnAckRefused  => emitted[1].number = <<"1">>
        /\ op.data = ConnAckRefused2 => emitted[1].number = <<"1", "3", "5">>
        /\ wire = <<>>

C5_Witness ==
    /\ op.name = "onReadyRead" /\ op.data = ConnAckRefused2
    /\ pre.buffer = <<>> /\ ~pre.connected /\ pre.sock = "Connected"
    /\ ~m_connected /\ ~timerActive
    /\ Len(emitted) = 1 /\ emitted[1].name = "error"
    /\ emitted[1].number = <<"1", "3", "5">>

RequestOps == {"publish", "subscribe", "subscribeHandler", "unsubscribe"}

\* C6: publish, subscribe (both overloads) and unsubscribe called while
\* isConnected() is false raise exactly one error event and change nothing
\* else: no write, handler table and packet id unchanged, no
\* published/subscribed/unsubscribed event; a later onConnected writes the
\* CONNECT packet and nothing that was requested before.
C6_RejectedWhenNotConnected ==
    /\ (op.name \in RequestOps /\ ~pre.connected) =>
          /\ Len(emitted) = 1 /\ emitted[1].name = "error"
          /\ wire = <<>>
          /\ calls = <<>>
          /\ m_topicHandlers = pre.handlers
          /\ m_packetId = pre.packetId
          /\ m_buffer = pre.buffer
          /\ ~m_connected
          /\ timerActive = pre.timerActive
          /\ sock = pre.sock
    /\ op.name = "onConnected" =>
          wire \in {<<>>, createConnectPacket(m_clientId, m_keepAliveInterval)}

C6_Witness ==
    /\ op.name = "subscribeHandler" /\ ~pre.connected
    /\ pre.sock = "Connected"
    /\ Len(emitted) = 1 /\ emitted[1].name = "error"
    /\ ~hasHandler(m_topicHandlers, op.topic)
    /\ wire = <<>>

\* C7: when the transport reports an error while the socket is connected,
\* the error event is raised with isConnected() already false, the keep-alive
\* timer stopped and the handler table empty.
C7_SocketErrorClearsAll ==
    (op.name = "onSocketError" /\ pre.sock = "Connected") =>
        /\ Len(emitted) = 1 /\ emitted[1].name = "error"
        /\ ~emitted[1].connected
        /\ ~emitted[1].timerActive
        /\ emitted[1].handlers = NoHandlers
        /\ ~m_connected /\ ~timerActive /\ m_topicHandlers = NoHandlers

\* C8: every disconnected event is raised with isConnected() already false,
\* the keep-alive timer stopped and no handler registered for any topic, and
\* one transport disconnection raises exactly one disconnected event.
C8_DisconnectedAfterCleanup ==
    /\ \A i \in 1..Len(emitted) :
          emitted[i].name = "disconnected" =>
              /\ ~emitted[i].connected
              /\ ~emitted[i].timerActive
              /\ \A t \in Topics : ~hasHandler(emitted[i].handlers, t)
    /\ Count(emitted, "disconnected") <= 1
    /\ op.name = "onDisconnected" =>
          /\ Count(emitted, "disconnected") = 1
          /\ ~m_connected /\ ~timerActive /\ m_topicHandlers = NoHandlers
          /\ sock = "Unconnected"

C8_Witness ==
    /\ op.name = "onDisconnected"
    /\ pre.connected /\ pre.timerActive /\ pre.handlers # NoHandlers
    /\ Len(emitted) = 1 /\ emitted[1].name = "disconnected"
    /\ ~emitted[1].connected /\ emitted[1].handlers = NoHandlers

\* C9: a failed transport write during publish, subscribe or unsubscribe
\* raises an error event, raises no published/subscribed/unsubscribed event
\* and leaves the connection state unchanged.
C9_WriteFailureAborts ==
    (op.name \in RequestOps /\ pre.connected /\ ~op.wok) =>
        /\ Count(emitted, "error") = 1
        /\ Count(emitted, "published") = 0
        /\ Count(emitted, "subscribed") = 0
        /\ Count(emitted, "unsubscribed") = 0
        /\ wire = <<>>
        /\ m_connected

\* number of bytes from cursor offset up to and including the first byte
\* with the high bit clear; 0 when there is none
LengthFieldSize(data, offset) ==
    LET ends == {k \in 1..(Len(data) - offset) :
                    /\ data[offset + k] < 128
                    /\ \A j \in 1..(k - 1) : data[offset + j] >= 128}
    IN IF ends = {} THEN 0 ELSE CHOOSE k \in ends : TRUE

\* C10: a failing decodeRemainingLength leaves the cursor where it started;
\* a succeeding one advances it by the number of length bytes read, 1 to 4.
C10_CursorOnFailureAndSuccess ==
    (arg.kind = "decode" /\ res.done) =>
        /\ ~res.ok => res.offset = arg.offset
        /\ res.ok  => /\ res.offset - arg.offset \in 1..4
                      /\ res.offset - arg.offset = LengthFieldSize(arg.data, arg.offset)

\* the length field that follows the type byte of buf does not terminate
\* within 4 bytes
HasInvalidLength(buf) ==
    /\ Len(buf) >= 5
    /\ \A j \in 2..5 : buf[j] >= 128

\* C11: when the receive buffer starts with a frame whose length field does
\* not terminate within 4 bytes, onReadyRead processes no frame, raises no
\* event, invokes no handler, keeps the buffered bytes and leaves the
\* connection state as it was, in the call that sees the field and in every
\* later call.
C11_InvalidLengthStalls ==
    (op.name = "onReadyRead" /\ HasInvalidLength(pre.buffer \o op.data)) =>
        /\ frames = <<>>
        /\ emitted = <<>>
        /\ calls = <<>>
        /\ m_buffer = pre.buffer \o op.data
        /\ m_connected = pre.connected
        /\ timerActive = pre.timerActive

\* the last operation was an onReadyRead that processed exactly one frame,
\* the PUBLISH on topic "a" with payload 07
ReceivedPublishA ==
    /\ op.name = "onReadyRead"
    /\ Len(frames) = 1
    /\ frames[1].type = 48
    /\ frames[1].body = <<0, 1, 97, 7>>

\* C12: an inbound PUBLISH on a topic with a registered handler invokes that
\* handler once with the payload and raises no messageReceived; on a topic
\* without one it raises messageReceived(topic, payload) once and invokes no
\* handler; unregisterHandler(T) leaves T without a handler and the handlers
\* of the other topics as they were.
C12_HandlerPrecedence ==
    /\ (ReceivedPublishA /\ hasHandler(pre.handlers, TopicA)) =>
          /\ calls = <<[handler |-> pre.handlers[TopicA], topic |-> TopicA,
                        payload |-> <<7>>]>>
          /\ Count(emitted, "messageReceived") = 0
    /\ (ReceivedPublishA /\ ~hasHandler(pre.handlers, TopicA)) =>
          /\ calls = <<>>
          /\ Len(emitted) = 1
          /\ emitted[1].name = "messageReceived"
          /\ emitted[1].topic = TopicA
          /\ emitted[1].payload = <<7>>
    /\ op.name = "unregisterHandler" =>
          /\ ~hasHandler(m_topicHandlers, op.topic)
          /\ \A t \in Topics \ {op.topic} :
                /\ hasHandler(m_topicHandlers, t) = hasHandler(pre.handlers, t)
                /\ hasHandler(pre.handlers, t) => m_topicHandlers[t] = pre.handlers[t]
          /\ emitted = <<>> /\ calls = <<>> /\ wire = <<>>

C12_Witness ==
    /\ ReceivedPublishA
    /\ hasHandler(pre.handlers, TopicA) /\ pre.handlers[TopicA] = "h2"
    /\ m_connected
    /\ calls = <<[handler |-> "h2", topic |-> TopicA, payload |-> <<7>>]>>
    /\ emitted = <<>>

\* C13: disconnect() always leaves the keep-alive timer stopped and the
\* handler table empty.  When the transport was connected it hands exactly
\* E0 00 to the transport (nothing reaches the wire if that write fails) and
\* the transport leaves the connected state; when the transport was not
\* connected nothing is written, the transport's state is not touched and
\* nothing is raised.
C13_Disconnect ==
    op.name = "disconnect" =>
        /\ ~timerActive
        /\ m_topicHandlers = NoHandlers
        /\ pre.sock = "Connected" =>
              /\ wire = IF op.wok THEN <<224, 0>> ELSE <<>>
              /\ sock \in {"Closing", "Unconnected"}
        /\ pre.sock # "Connected" =>
              /\ wire = <<>>
              /\ sock = pre.sock
              /\ emitted = <<>>
              /\ m_connected = pre.connected
        /\ m_packetId = pre.packetId
        /\ m_buffer = pre.buffer

C13_Witness ==
    /\ op.name = "disconnect" /\ op.wok
    /\ pre.sock = "Connected" /\ pre.connected /\ pre.timerActive
    /\ hasHandler(pre.handlers, TopicA)
    /\ wire = createDisconnectPacket
    /\ ~timerActive /\ m_topicHandlers = NoHandlers
    /\ sock = "Closing"

\* the step from the state after the transport's connected() signal to the
\* state after the accepting CONNACK arrived as the first bytes of the
\* connection
ConnAckOkRightAfterConnected ==
    /\ op.name = "onConnected"
    /\ op'.name = "onReadyRead"
    /\ op'.data = ConnAckOk

\* C14: a rejected CONNACK, a transport error and a transport disconnect
\* leave isConnected() false and the timer stopped, and on every connection,
\* the first as well as one made by a new connectToHost after an error or a
\* disconnect, the accepting CONNACK 20 02 00 00 that follows the transport's
\* connected() signal makes isConnected() true and raises connected.
C14_CanReconnect ==
    [][/\ op'.name \in {"onSocketError", "onDisconnected"} =>
             ~m_connected' /\ ~timerActive'
       /\ (/\ op'.name = "onReadyRead"
           /\ op'.data \in {ConnAckRefused, ConnAckRefused2}
           /\ m_buffer = <<>> /\ ~m_connected) =>
             ~m_connected' /\ ~timerActive'
       /\ ConnAckOkRightAfterConnected =>
             /\ m_connected'
             /\ Count(emitted', "connected") = 1]_vars

\* frame f is a CONNACK with return code 0
IsConnAckAccepted(f) ==
    /\ HighNibble(f.type) = 32
    /\ Len(f.body) >= 2
    /\ f.body[2] = 0

\* C15: the keep-alive timer is armed only while isConnected() is true; only
\* an onReadyRead that processed an accepting CONNACK arms it; every
\* operation that turns isConnected() from true to false and every
\* disconnect() leaves it stopped.
C15_TimerOnlyWhileConnected ==
    /\ timerActive => m_connected
    /\ (~pre.timerActive /\ timerActive) =>
          /\ op.name = "onReadyRead"
          /\ \E i \in 1..Len(frames) : IsConnAckAccepted(frames[i])
    /\ (pre.connected /\ ~m_connected) => ~timerActive
    /\ op.name = "disconnect" => ~timerActive

C15_Witness ==
    /\ op.name = "onSocketError"
    /\ pre.connected /\ pre.timerActive /\ pre.sock = "Connected"
    /\ ~m_connected /\ ~timerActive

\* C16: a keep-alive tick that finds the connection marked connected and the
\* transport connected hands exactly C0 00 to the transport (nothing reaches
\* the wire if that write fails) and leaves the timer armed; any other tick
\* stops the timer and writes nothing.  A tick raises no event and does not
\* change isConnected().
C16_KeepAliveTick ==
    op.name = "sendPingRequest" =>
        /\ (pre.connected /\ pre.sock = "Connected") =>
              /\ wire = IF op.wok THEN <<192, 0>> ELSE <<>>
              /\ timerActive
        /\ ~(pre.connected /\ pre.sock = "Connected") =>
              /\ wire = <<>>
              /\ ~timerActive
        /\ emitted = <<>>
        /\ m_connected = pre.connected
        /\ m_packetId = pre.packetId

C16_Witness ==
    /\ op.name = "sendPingRequest" /\ op.wok
    /\ pre.connected /\ pre.timerActive /\ pre.sock = "Connected"
    /\ wire = createPingRequestPacket
    /\ timerActive /\ m_connected

\* the last operation was publish("a/b", 01 02 03, qos 0, retain false) on a
\* connection marked connected, with a transport that accepts the write
PublishedAB ==
    /\ op.name = "publish"
    /\ op.topic = TopicAB /\ op.payload = <<1, 2, 3>>
    /\ op.qos = 0 /\ ~op.retain
    /\ pre.connected
    /\ op.wok

\* C17 as stated: publish("a/b", 01 02 03, qos 0, retain false) while
\* connected hands exactly 30 07 00 03 61 2F 62 01 02 03 to the transport and
\* raises published("a/b").
C17_PublishExample_AsStated ==
    PublishedAB =>
        /\ wire = <<48, 7, 0, 3, 97, 47, 98, 1, 2, 3>>
        /\ Len(emitted) = 1
        /\ emitted[1].name = "published"
        /\ emitted[1].topic = TopicAB

\* C17 amended: publish("a/b", 01 02 03, qos 0, retain false) while connected
\* hands exactly 30 08 00 03 61 2F 62 01 02 03 to the transport (remaining
\* length 8 = 2 length bytes + 3 topic bytes + 3 payload bytes) and raises
\* published("a/b") and nothing else.
C17_PublishExample ==
    PublishedAB =>
        /\ wire = <<48, 8, 0, 3, 97, 47, 98, 1, 2, 3>>
        /\ Len(wire) = 2 + wire[2]
        /\ Len(emitted) = 1
        /\ emitted[1].name = "published"
        /\ emitted[1].topic = TopicAB
        /\ m_connected
        /\ m_packetId = pre.packetId

C17_Witness ==
    /\ PublishedAB
    /\ pre.sock = "Connected" /\ pre.timerActive
    /\ wire = <<48, 8, 0, 3, 97, 47, 98, 1, 2, 3>>
    /\ Len(emitted) = 1 /\ emitted[1].name = "published"

\* C18: for every topic, payload, qos and retain flag the receive path, given
\* the packet createPublishPacket builds, delivers exactly one message, with
\* the same topic and the same payload, and the first byte of the packet is
\* a PUBLISH type byte carrying qos in bits 1-2 and retain in bit 0.
C18_PublishRoundTrip ==
    (arg.kind = "publish" /\ res.done) =>
        /\ res.received = 1
        /\ res.topics = {arg.topic}
        /\ res.same
        /\ res.left = 0
        /\ HighNibble(res.first) = 48
        /\ (res.first \div 2) % 4 = arg.qos
        /\ res.first % 2 = (IF arg.retain THEN 1 ELSE 0)

\* the engine as a listener of the signal e finds it: the fields e recorded
\* at emission, the rest as the operation that emitted e left it (the
\* CONNACK branch changes nothing else)
AtSignal(e) ==
    [Cur EXCEPT !.connected = e.connected, !.timerActive = e.timerActive,
                !.handlers = e.handlers]

\* C19: every connected signal is raised with isConnected() already true and
\* the keep-alive timer already armed, and a publish or a subscribe called by
\* a listener of that signal is written to the transport and raises
\* published / subscribed, not the error of a call made while not connected.
C19_ConnectedListenerCanCall ==
    \A i \in 1..Len(emitted) :
        emitted[i].name = "connected" =>
            /\ emitted[i].connected
            /\ emitted[i].timerActive
            /\ LET st == AtSignal(emitted[i])
                   p  == publish(st, TopicAB, <<1, 2, 3>>, 0, FALSE, TRUE)
                   q  == subscribe(st, TopicA, 0, TRUE)
                   h  == subscribeHandler(st, TopicA, "h1", 0, TRUE)
               IN /\ p.wire = createPublishPacket(TopicAB, <<1, 2, 3>>, 0, FALSE)
                  /\ Len(p.events) = 1 /\ p.events[1].name = "published"
                  /\ q.wire = createSubscribePacket(m_packetId, TopicA, 0)
                  /\ Len(q.events) = 1 /\ q.events[1].name = "subscribed"
                  /\ h.wire = q.wire
                  /\ Len(h.events) = 1 /\ h.events[1].name = "subscribed"
                  /\ hasHandler(h.handlers, TopicA)

C19_Witness ==
    /\ op.name = "onReadyRead" /\ op.data = ConnAckOk
    /\ ~pre.connected /\ ~pre.timerActive /\ pre.buffer = <<>>
    /\ Len(emitted) = 1 /\ emitted[1].name = "connected"
    /\ emitted[1].connected /\ emitted[1].timerActive
    /\ sock = "Connected"
    /\ subscribe(AtSignal(emitted[1]), TopicA, 0, TRUE).wire
          = <<130, 6, 0, 1, 0, 1, 97, 0>>

\* operations that construct a SUBSCRIBE or an UNSUBSCRIBE packet when the
\* connection is marked connected
PacketIdOps == {"subscribe", "subscribeHandler", "unsubscribe"}

C21_ExactMatchOnly ==
    /\ ReceivedPublishA =>
          \A i \in 1..Len(calls) :
              /\ hasHandler(pre.handlers, calls[i].topic)
              /\ calls[i].topic = TopicA
              /\ calls[i].handler = pre.handlers[TopicA]
    /\ (/\ ReceivedPublishA
        /\ hasHandler(pre.handlers, TopicWild)
        /\ ~hasHandler(pre.handlers, TopicA)) =>
          /\ calls = <<>>
          /\ Len(emitted) = 1
          /\ emitted[1].name = "messageReceived"
          /\ emitted[1].topic = TopicA
          /\ emitted[1].payload = <<7>>

C21_Witness ==
    /\ ReceivedPublishA
    /\ m_connected
    /\ hasHandler(pre.handlers, TopicWild) /\ pre.handlers[TopicWild] = "h1"
    /\ ~hasHandler(pre.handlers, TopicA)
    /\ calls = <<>>
    /\ Len(emitted) = 1 /\ emitted[1].name = "messageReceived"
    /\ emitted[1].topic = TopicA

\* C22: unsubscribe(T) while connected hands exactly one UNSUBSCRIBE packet
\* for T to the transport (A2, remaining length, packet id, length-prefixed
\* T; nothing reaches the wire if that write fails), leaves T without a
\* handler and the handlers of the other topics as they were, and an inbound
\* PUBLISH on T that arrives next raises messageReceived and invokes no
\* handler.
C22_Unsubscribe ==
    (op.name = "unsubscribe" /\ pre.connected) =>
        /\ wire = IF op.wok
                  THEN <<162, 4 + Len(op.topic), pre.packetId \div 256,
                         pre.packetId % 256, 0, Len(op.topic)>> \o op.topic
                  ELSE <<>>
        /\ ~hasHandler(m_topicHandlers, op.topic)
        /\ \A t \in Topics \ {op.topic} :
              /\ hasHandler(m_topicHandlers, t) = hasHandler(pre.handlers, t)
              /\ hasHandler(pre.handlers, t) => m_topicHandlers[t] = pre.handlers[t]
        /\ (op.topic = TopicA /\ m_buffer = <<>>) =>
              LET r == onReadyRead(Cur, PublishA, 0)
              IN /\ r.calls = <<>>
                 /\ Len(r.events) = 1
                 /\ r.events[1].name = "messageReceived"
                 /\ r.events[1].topic = TopicA
                 /\ r.events[1].payload = <<7>>

C22_Witness ==
    /\ op.name = "unsubscribe" /\ op.topic = TopicA /\ op.wok
    /\ pre.connected /\ pre.packetId = 1
    /\ hasHandler(pre.handlers, TopicA) /\ hasHandler(pre.handlers, TopicWild)
    /\ wire = <<162, 5, 0, 1, 0, 1, 97>>
    /\ ~hasHandler(m_topicHandlers, TopicA)
    /\ hasHandler(m_topicHandlers, TopicWild)
    /\ m_buffer = <<>>

\* C23: encodeRemainingLength(n) yields the base-128 digits of n, least
\* significant first, every byte but the last with the continuation bit set
\* and no more bytes than n needs: 1 to 4 bytes for n in 0..268435455;
\* 127 gives 7F, 128 gives 80 01, 321 gives C1 02.
C23_EncodeRemainingLength ==
    (arg.kind = "encode" /\ res.done) =>
        /\ Len(res.bytes) \in 1..4
        /\ \A j \in 1..(Len(res.bytes) - 1) : res.bytes[j] \in 128..255
        /\ res.bytes[Len(res.bytes)] \in 0..127
        /\ VarIntValue(res.bytes) = arg.n
        /\ (Len(res.bytes) > 1) => res.bytes[Len(res.bytes)] # 0
        /\ arg.n = 127 => res.bytes = <<127>>
        /\ arg.n = 128 => res.bytes = <<128, 1>>
        /\ arg.n = 321 => res.bytes = <<193, 2>>

C23_Witness ==
    /\ arg.kind = "encode" /\ res.done
    /\ arg.n = 321
    /\ res.bytes = <<193, 2>>

\* C24: an onReadyRead call that ends with isConnected() false (the engine
\* was not connected at any moment of the call) invokes no handler and
\* raises no messageReceived, whatever PUBLISH frames it processes.
C24_DispatchOnlyWhileConnected ==
    (op.name = "onReadyRead" /\ ~m_connected) =>
        /\ calls = <<>>
        /\ Count(emitted, "messageReceived") = 0

\* C25: no onReadyRead call reads a frame body outside its bounds, and none
\* ends the process: a CONNACK frame with a body shorter than 2 bytes is
\* handled without reading index 1.
C25_ReadsInsideBody ==
    op.name = "onReadyRead" =>
        /\ ~oob
        /\ ~crashed

\* C26: when the transport's connected() signal has been handled the receive
\* buffer is empty: no byte received on an earlier connection is still in it.
C26_BufferEmptyOnNewConnection ==
    op.name = "onConnected" => m_buffer = <<>>

C28_ConnectedOncePerConnection ==
    (op.name = "onReadyRead" /\ pre.connected) =>
        Count(emitted, "connected") = 0


\* The CONNECT packet of MQTT 3.1.1 for an ASCII client id, clean session,
\* keep-alive 30 s
ConnectFrame(id) ==
    <<16, 12 + Len(id), 0, 4, 77, 81, 84, 84, 4, 2, 0, 30, 0, Len(id)>> \o id

WritesWhileNotConnected == {"onConnected", "disconnect"}

\* C29: every transport-connected event writes exactly one CONNECT packet
\* built from the client id stored by the last connectToHost (nothing when
\* the transport refuses the write), and that packet is the first of the
\* connection: the engine is not connected at that event, becomes connected
\* only by processing an accepting CONNACK, and until then no operation
\* other than disconnect() writes anything, so no PUBLISH, SUBSCRIBE,
\* UNSUBSCRIBE or PINGREQ precedes the CONNACK.
C29_ConnectIsFirstPacket ==
    [][ /\ (op'.name = "connectToHost") => (m_clientId' = op'.clientId)
        /\ (op'.name # "connectToHost") => (m_clientId' = m_clientId)
        /\ (op'.name = "onConnected") =>
              /\ wire' = IF op'.wok THEN ConnectFrame(m_clientId) ELSE <<>>
              /\ ~m_connected /\ ~m_connected' /\ ~timerActive'
        /\ (~m_connected /\ m_connected') =>
              /\ op'.name = "onReadyRead"
              /\ Count(emitted', "connected") >= 1
        /\ (~m_connected /\ op'.name \notin WritesWhileNotConnected) =>
              wire' = <<>>
      ]_vars

C29_Witness ==
    /\ op.name = "onConnected" /\ op.wok
    /\ pre.sock = "Connecting" /\ sock = "Connected"
    /\ m_clientId = <<100>>
    /\ wire = <<16, 13, 0, 4, 77, 81, 84, 84, 4, 2, 0, 30, 0, 1, 100>>
    /\ ~m_connected


IsPublishFrame(f) == HighNibble(f.type) = 48

WellFormedPublish(f) ==
    /\ IsPublishFrame(f)
    /\ Len(f.body) >= 2
    /\ Len(f.body) >= 2 + f.body[1] * 256 + f.body[2]

\* The frame at the head of the bytes b as MQTT delimits it (bodies shorter
\* than 128 bytes: one length byte); <<>> when b holds no complete frame
FrameAt(b) ==
    IF Len(b) >= 2 /\ b[2] < 128 /\ Len(b) >= 2 + b[2]
    THEN SubSeq(b, 1, 2 + b[2])
    ELSE <<>>

\* F is a complete PUBLISH frame that is too short for its topic
MalformedPublish(F) ==
    /\ F # <<>>
    /\ HighNibble(F[1]) = 48
    /\ ~WellFormedPublish([type |-> F[1], body |-> SubSeq(F, 3, Len(F))])

\* The bytes the frames of one call took from the buffer, in order
RECURSIVE RemovedBytes(_)
RemovedBytes(fs) ==
    IF fs = <<>> THEN <<>> ELSE Head(fs).removed \o RemovedBytes(Tail(fs))

\* C30: a PUBLISH frame whose body is shorter than 2 bytes or whose declared
\* topic length exceeds the rest of the body is skipped: the whole frame
\* leaves the buffer, no handler runs and no messageReceived is raised for
\* it, no error is raised for it, a call that met only such frames leaves
\* the connection state as it was, and the frames behind it are processed
\* in the same call (what stays buffered holds no complete frame).  The
\* last conjunct delivers a PUBLISH with a one-byte body followed by a
\* PINGRESP to the state the call left.
C30_MalformedPublishSkipped ==
    op.name = "onReadyRead" =>
        LET n     == Len(frames)
            input == pre.buffer \o op.data
            At(i) == FrameAt(SubSeq(input,
                         Len(RemovedBytes(SubSeq(frames, 1, i - 1))) + 1,
                         Len(input)))
            bad   == {i \in 1..n : MalformedPublish(At(i))}
            good  == {i \in 1..n : WellFormedPublish(frames[i])}
            acks  == {i \in 1..n : HighNibble(frames[i].type) = 32}
        IN /\ RemovedBytes(frames) \o m_buffer = input
           /\ \A i \in bad :
                 /\ frames[i].removed = At(i)
                 /\ frames[i].body = SubSeq(At(i), 3, Len(At(i)))
                 /\ i \notin good
           /\ Len(calls) + Count(emitted, "messageReceived") = Cardinality(good)
           /\ Count(emitted, "error") <= Cardinality(acks)
           /\ (bad # {} /\ bad = 1..n) =>
                 /\ emitted = <<>> /\ calls = <<>> /\ wire = <<>>
                 /\ m_connected = pre.connected
                 /\ timerActive = pre.timerActive
                 /\ sock = pre.sock
                 /\ m_topicHandlers = pre.handlers
                 /\ m_packetId = pre.packetId
           /\ (bad # {} /\ ~crashed) => FrameAt(m_buffer) = <<>>
           /\ ~crashed => ~MalformedPublish(FrameAt(m_buffer))
           /\ (m_buffer = <<>> /\ ~crashed) =>
                 LET r == onReadyRead(Cur, PublishShort \o PingResp, 0)
                 IN /\ r.buffer = <<>>
                    /\ Len(r.frames) = 2
                    /\ r.frames[1].removed = PublishShort
                    /\ r.frames[2].removed = PingResp
                    /\ r.events = <<>> /\ r.calls = <<>> /\ r.wire = <<>>
                    /\ r.connected = m_connected
                    /\ r.timerActive = timerActive
                    /\ r.handlers = m_topicHandlers

C30_Witness ==
    /\ op.name = "onReadyRead" /\ op.data = PublishEmptyThenConnAck
    /\ pre.buffer = <<>> /\ ~pre.connected
    /\ Len(frames) = 2
    /\ MalformedPublish(frames[1].removed) /\ frames[1].body = <<>>
    /\ frames[2].removed = ConnAckOk
    /\ Len(emitted) = 1 /\ emitted[1].name = "connected"
    /\ calls = <<>>
    /\ m_buffer = <<>> /\ m_connected


\* C31: when the type byte and a complete remaining-length field (1 to 4
\* bytes) are at the front of the buffer but fewer body bytes than the field
\* declares, onReadyRead removes nothing and processes no frame; when the
\* body is complete the first frame processed is exactly the type byte, the
\* length bytes and remainingLength body bytes, and the bytes behind what
\* the call removed stay in the buffer as they were.
C31_ShortBodyWaits ==
    op.name = "onReadyRead" =>
        LET input == pre.buffer \o op.data
            k     == LengthFieldSize(input, 1)
            total == 1 + k + VarIntValue(SubSeq(input, 2, 1 + k))
        IN (Len(input) >= 2 /\ k \in 1..4) =>
              /\ Len(input) < total => (frames = <<>> /\ m_buffer = input)
              /\ Len(input) >= total =>
                    /\ Len(frames) >= 1
                    /\ frames[1].removed = SubSeq(input, 1, total)
                    /\ RemovedBytes(frames) \o m_buffer = input


\* The condition on which the extraction loop of onReadyRead returns
LoopReturns(buf) ==
    \/ Len(buf) < 2
    \/ LET d == decodeRemainingLength(buf, 1)
       IN Len(buf) < d.offset + d.value

\* Byte strings of up to MaxLenBytes bytes over type bytes, length bytes
\* and a continuation byte
RawAlphabet == {0, 1, 2, 32, 48, 128}
RawBuffers == SeqsUpTo(RawAlphabet, MaxLenBytes)

\* What a finished call r of onReadyRead on the buffered bytes input shows
BoundedBy(r, input) ==
    /\ \A i \in 1..Len(r.frames) : Len(r.frames[i].removed) >= 2
    /\ RemovedBytes(r.frames) \o r.buffer = input
    /\ 2 * Len(r.frames) <= Len(input)
    /\ r.crashed \/ LoopReturns(r.buffer)

\* C32: every call of onReadyRead terminates, whatever the buffer holds:
\* each iteration of the extraction loop either returns or removes at least
\* 2 bytes from the front of the buffer (a skipped malformed PUBLISH
\* included), bytes are only ever removed, and so the frames processed in
\* one call number at most half the buffered bytes; when the call ends the
\* loop's return condition holds (or the process was ended by the bounds
\* assertion).  Stated for every call the engine makes and, on the freshly
\* constructed engine, for every byte string of RawBuffers.
C32_ReadyReadTerminates ==
    /\ op.name = "onReadyRead" =>
          BoundedBy([frames |-> frames, buffer |-> m_buffer, crashed |-> crashed],
                    pre.buffer \o op.data)
    /\ op.name = "none" =>
          \A b \in RawBuffers, ub \in UBValues :
              BoundedBy(onReadyRead(Cur, b, ub), b)

C32_Witness ==
    /\ op.name = "onReadyRead" /\ op.data = PublishEmptyThenConnAck
    /\ pre.buffer = <<>> /\ pre.connected
    /\ Len(frames) = 2
    /\ frames[1].removed = <<48, 0>>
    /\ Len(frames[2].removed) = 4
    /\ m_buffer = <<>>


HandlerTableOps == {"registerHandler", "unregisterHandler"}

\* C33: registerHandler and unregisterHandler work in every connection
\* state and change only the handler table entry of their topic: nothing is
\* written, no event is raised, no handler runs, and the connection state,
\* the timer, the socket, the receive buffer, the packet id and the handlers
\* of the other topics stay as they were.  registerHandler leaves the given
\* handler as the only one of its topic, replacing an earlier one: a PUBLISH
\* on the topic then invokes that handler once and no other;
\* unregisterHandler leaves the topic without a handler.
C33_HandlerTableOnly ==
    op.name \in HandlerTableOps =>
        /\ wire = <<>> /\ emitted = <<>> /\ calls = <<>> /\ frames = <<>>
        /\ m_connected = pre.connected
        /\ timerActive = pre.timerActive
        /\ sock = pre.sock
        /\ m_buffer = pre.buffer
        /\ m_packetId = pre.packetId
        /\ DOMAIN m_topicHandlers \ {op.topic} = DOMAIN pre.handlers \ {op.topic}
        /\ \A t \in DOMAIN pre.handlers \ {op.topic} :
              m_topicHandlers[t] = pre.handlers[t]
        /\ op.name = "registerHandler" =>
              /\ hasHandler(m_topicHandlers, op.topic)
              /\ m_topicHandlers[op.topic] = op.handler
              /\ LET r == handlePublishMessage(Cur, op.topic, <<7>>)
                 IN /\ r.calls = <<[handler |-> op.handler, topic |-> op.topic,
                                    payload |-> <<7>>]>>
                    /\ r.events = <<>>
        /\ op.name = "unregisterHandler" =>
              /\ ~hasHandler(m_topicHandlers, op.topic)
              /\ LET r == handlePublishMessage(Cur, op.topic, <<7>>)
                 IN r.calls = <<>> /\ Count(r.events, "messageReceived") = 1

C33_Witness ==
    /\ op.name = "registerHandler" /\ op.topic = TopicA /\ op.handler = "h2"
    /\ hasHandler(pre.handlers, TopicA) /\ pre.handlers[TopicA] = "h1"
    /\ hasHandler(pre.handlers, TopicWild)
    /\ ~m_connected /\ sock = "Unconnected"
    /\ m_topicHandlers[TopicA] = "h2"
    /\ m_topicHandlers[TopicWild] = pre.handlers[TopicWild]


SlotCalls(what) ==
    Cardinality({i \in 1..Len(slot.log) : slot.log[i][1] = what})

PublishedSecure ==
    Cardinality({i \in 1..Len(slot.log) :
                    slot.log[i] = <<"publish", NetworkSecure, TrueText>>})

\* C34: each expiry of the automatic timer stops the timer, sets the step
\* counter to 0 and calls publish("network/secure", "TRUE") once, which puts
\* that PUBLISH on the wire when the engine is connected.  Of the messages on
\* "action/task" that contain "exitAction", counted from the last expiry, the
\* 1st calls switchToUnsecure (1 to 5 tries) and nothing else, the 2nd calls
\* switchToSecure (1 to 5 tries) and nothing else, the 3rd starts the
\* automatic timer, and every further one calls no switch and leaves the
\* timer as it is.  A message without "exitAction" leaves the step counter
\* and the timer unchanged and calls nothing.
C34_StepSequence ==
    /\ slot.name = "onSwitchNetworkInterval" =>
          /\ ~m_automaticTimer
          /\ m_networkSwichtStep = 0
          /\ SlotCalls("stop") = 1 /\ SlotCalls("start") = 0
          /\ PublishedSecure = 1 /\ SlotCalls("publish") = 1
          /\ SlotCalls("switchToUnsecure") = 0 /\ SlotCalls("switchToSecure") = 0
          /\ (op.name = "publish" /\ pre.connected /\ op.wok) =>
                wire = <<48, 20, 0, 14>> \o NetworkSecure \o TrueText
          /\ (op.name = "publish" /\ ~pre.connected) => wire = <<>>
    /\ (slot.name = "onActionTask" /\ Contains(slot.msg, ExitAction)
            /\ exitActions >= 1) =>
          /\ m_networkSwichtStep = exitActions
          /\ exitActions = 1 =>
                /\ SlotCalls("switchToUnsecure") \in 1..5
                /\ SlotCalls("switchToSecure") = 0
                /\ SlotCalls("start") = 0
                /\ m_automaticTimer = slot.timer
          /\ exitActions = 2 =>
                /\ SlotCalls("switchToSecure") \in 1..5
                /\ SlotCalls("switchToUnsecure") = 0
                /\ SlotCalls("start") = 0
                /\ m_automaticTimer = slot.timer
          /\ exitActions = 3 =>
                /\ SlotCalls("start") = 1 /\ m_automaticTimer
                /\ SlotCalls("switchToUnsecure") = 0
                /\ SlotCalls("switchToSecure") = 0
          /\ exitActions > 3 =>
                /\ slot.log = <<>>
                /\ m_automaticTimer = slot.timer
    /\ (slot.name = "onActionTask" /\ ~Contains(slot.msg, ExitAction)) =>
          /\ m_networkSwichtStep = slot.step
          /\ m_automaticTimer = slot.timer
          /\ slot.log = <<>>
          /\ op.name = "onReadyRead" => wire = <<>>

C34_Witness ==
    /\ slot.name = "onActionTask" /\ Contains(slot.msg, ExitAction)
    /\ exitActions = 4 /\ m_networkSwichtStep = 4
    /\ slot.timer /\ m_automaticTimer
    /\ slot.log = <<>>
    /\ m_connected

============================================================================
